---- MODULE Spec2Model ----
(***************************************************************************)
(* Verification model of the vita repository: the relationship-strength    *)
(* calculator of the social app (social/views.py) and the kanban board of  *)
(* the tasks app (tasks/views.py).                                         *)
(*                                                                         *)
(* Optional (nullable) values are sequences of length at most one:         *)
(* None is <<>> and a present value v is <<v>>.  Dates and timestamps are  *)
(* day numbers.                                                            *)
(***************************************************************************)
EXTENDS Integers, Sequences, FiniteSets, TLC

VARIABLES
    contact,    \* the Contact row handed to _compute_strength
    today,      \* timezone.localdate() of the social request
    strength,   \* contact.strength: None until computed
    tasks,      \* the Task table: a sequence of rows, pk = index
    now,        \* timezone.now(), in days
    response,   \* the latest HTTP response of the tasks app
    columns,    \* context["columns"] rendered into that response
    requests,   \* number of tasks requests served
    inflight    \* requests being handled by concurrent workers

vars == <<contact, today, strength, tasks, now, response, columns, requests,
          inflight>>

socialVars == <<contact, today, strength>>

taskVars == <<tasks, now, response, columns, requests, inflight>>

----------------------------------------------------------------------------
(* Bounds of the model *)

\* Largest stored check_in_frequency_days.
MaxCadence == 31

\* Largest number of touchpoints inside the 90-day window.
MaxRecent == 6

\* Oldest and furthest-ahead last-contact date, in days from today.
MaxDaysAgo == 92

MaxDaysAhead == 2

\* Day number of timezone.localdate().
Today == 100

----------------------------------------------------------------------------
(* Python helpers *)

None == <<>>

Some(v) == <<v>>

Max2(a, b) == IF a >= b THEN a ELSE b

Min2(a, b) == IF a <= b THEN a ELSE b

Abs(a) == IF a < 0 THEN -a ELSE a

\* int(x) of a Python float: truncation toward zero of the quotient a / b.
TruncDiv(a, b) == IF a >= 0 THEN a \div b ELSE -((-a) \div b)

----------------------------------------------------------------------------
(* social/views.py : _compute_strength *)

DefaultCadence == 30

RecentWindowDays == 90

\* Pairs <<|days_since|, target_days>> for which the double-precision
\* product (days_since / target_days) * 60 lands just below the exact
\* integer quotient, so that int() yields one less in magnitude.  The table
\* is complete for |days_since| <= 100 and target_days <= 40.
FloatShortfall ==
    { <<49, 3>>, <<98, 3>>, <<41, 5>>, <<82, 5>>, <<49, 6>>, <<98, 6>>,
      <<41, 10>>, <<82, 10>>, <<49, 12>>, <<98, 12>>, <<41, 20>>,
      <<82, 20>>, <<98, 24>>, <<82, 40>> }

\* target_days = max(contact.check_in_frequency_days or 30, 1)
target_days_no_default(c) ==
    Max2(c.check_in_frequency_days, 1)

target_days(c) ==
    Max2(IF c.check_in_frequency_days = 0
            THEN DefaultCadence
            ELSE c.check_in_frequency_days, 1)

\* getattr(contact, "last_touchpoint", None): the Max("date") annotation,
\* present only on rows that came through _fetch_contacts_with_strength.
last_touchpoint(c) == IF c.annotated THEN c.tp_max ELSE None

\* getattr(contact, "touchpoints_recent", 0) or 0
touchpoints_recent(c) == IF c.annotated THEN c.tp_recent ELSE 0

\* last_date: the annotation, else last_contacted_at, else the Max("date")
\* aggregate over the contact's touchpoints.
last_date_of(c) ==
    LET first == IF last_touchpoint(c) # None
                    THEN last_touchpoint(c)
                    ELSE c.last_contacted_at
    IN  IF first = None THEN c.tp_max ELSE first

\* freshness_penalty = int((days_since / target_days) * 60)
freshness_penalty_intdiv(days_since, target) ==
    TruncDiv(days_since, target) * 60

freshness_penalty(days_since, target) ==
    LET q == TruncDiv(days_since * 60, target)
    IN  IF <<Abs(days_since), target>> \in FloatShortfall
           THEN (IF days_since >= 0 THEN q - 1 ELSE q + 1)
           ELSE q

\* consistency_boost = min(10, touchpoints_recent * 2)
consistency_boost_uncapped(c) == touchpoints_recent(c) * 2

consistency_boost(c) == Min2(10, touchpoints_recent(c) * 2)

\* score = max(5, min(100, raw_score))
clamp_score_unclamped(raw_score) == raw_score

clamp_score(raw_score) == Max2(5, Min2(100, raw_score))

\* The label/state ladder.  target_days * 0.5 and target_days * 1.5 are
\* exact in double precision, so the comparisons are exact on integers.
label_state_steady_late(days_since, target) ==
    IF 2 * days_since <= target THEN <<"Strong", "success">>
    ELSE IF days_since <= target + 1 THEN <<"Steady", "primary">>
    ELSE IF 2 * days_since <= 3 * target THEN <<"Needs touch", "warning">>
    ELSE <<"At risk", "danger">>

label_state_strict(days_since, target) ==
    IF 2 * days_since < target THEN <<"Strong", "success">>
    ELSE IF days_since < target THEN <<"Steady", "primary">>
    ELSE IF 2 * days_since < 3 * target THEN <<"Needs touch", "warning">>
    ELSE <<"At risk", "danger">>

label_state(days_since, target) ==
    IF 2 * days_since <= target THEN <<"Strong", "success">>
    ELSE IF days_since <= target THEN <<"Steady", "primary">>
    ELSE IF 2 * days_since <= 3 * target THEN <<"Needs touch", "warning">>
    ELSE <<"At risk", "danger">>

\* overdue_by = abs(next_due_in) if next_due_in < 0 else None
overdue_by_inclusive(next_due_in) ==
    IF next_due_in <= 0 THEN Some(Abs(next_due_in)) ELSE None

overdue_by_of(next_due_in) ==
    IF next_due_in < 0 THEN Some(Abs(next_due_in)) ELSE None

cold_start_unscored(target) ==
    [label |-> "Cold start", state |-> "danger", score |-> 0,
     next_due_in |-> 0]

cold_start(target) ==
    [label |-> "Cold start", state |-> "danger", score |-> 25,
     next_due_in |-> target]

_compute_strength(c, day) ==
    LET target    == target_days(c)
        last_date == last_date_of(c)
    IN  IF last_date = None
        THEN LET cold == cold_start(target)
             IN  [label              |-> cold.label,
                  score              |-> cold.score,
                  state              |-> cold.state,
                  days_since         |-> None,
                  next_due_in        |-> cold.next_due_in,
                  last_touchpoint    |-> last_date,
                  touchpoints_recent |-> touchpoints_recent(c),
                  overdue_by         |-> overdue_by_of(cold.next_due_in)]
        ELSE LET days_since  == day - last_date[1]
                 raw_score   == 100 - freshness_penalty(days_since, target)
                                    + consistency_boost(c)
                 ls          == label_state(days_since, target)
                 next_due_in == target - days_since
             IN  [label              |-> ls[1],
                  score              |-> clamp_score(raw_score),
                  state              |-> ls[2],
                  days_since         |-> Some(days_since),
                  next_due_in        |-> next_due_in,
                  last_touchpoint    |-> last_date,
                  touchpoints_recent |-> touchpoints_recent(c),
                  overdue_by         |-> overdue_by_of(next_due_in)]

----------------------------------------------------------------------------
(* The Contact rows the calculator can be handed *)

Dates == (Today - MaxDaysAgo) .. (Today + MaxDaysAhead)

\* Count("contacttouchpoint", filter=Q(date__gte=today - 90 days)) is
\* positive exactly when the newest touchpoint lies inside the window.
RecentCounts(tp_max, day) ==
    IF tp_max # None /\ tp_max[1] >= day - RecentWindowDays
       THEN 1 .. MaxRecent
       ELSE {0}

\* last_contacted_at is an independent nullable column.
LastContactedChoices(tp_max) ==
    IF tp_max = None
       THEN {None} \cup {Some(d) : d \in Dates}
       ELSE {None, tp_max, Some(Today + MaxDaysAhead)}

InitTasksIdle ==
    /\ tasks = <<>>
    /\ now = 0
    /\ response = None
    /\ columns = <<>>
    /\ requests = 0
    /\ inflight = <<>>

InitStrength ==
    /\ today = Today
    /\ \E cad \in 0 .. MaxCadence, ann \in BOOLEAN,
          m \in {None} \cup {Some(d) : d \in Dates} :
          \E lc \in LastContactedChoices(m), n \in RecentCounts(m, Today) :
             contact = [check_in_frequency_days |-> cad,
                        last_contacted_at       |-> lc,
                        annotated               |-> ann,
                        tp_max                  |-> m,
                        tp_recent               |-> n]
    /\ strength = None
    /\ InitTasksIdle

\* contacts_dashboard / contact_detail: contact.strength =
\* _compute_strength(contact, today)
ComputeStrength ==
    /\ strength = None
    /\ strength' = Some(_compute_strength(contact, today))
    /\ UNCHANGED <<contact, today, taskVars>>

NextStrength == ComputeStrength

SpecStrength == InitStrength /\ [][NextStrength]_vars

----------------------------------------------------------------------------
(* tasks/models.py : Task, and tasks/views.py : the board *)

\* Task.Status
Statuses == {"todo", "in_progress", "blocked", "cancelled", "done"}

\* Task.Priority: LOW = 1 .. URGENT = 4, default NORMAL
Priorities == 1 .. 4

PriorityNormal == 2

BOARD_STATUSES ==
    << <<"todo", "To do">>, <<"in_progress", "In progress">>,
       <<"blocked", "Blocked">>, <<"done", "Recently done">> >>

\* valid_statuses = {code for code, _ in BOARD_STATUSES}
valid_statuses == {BOARD_STATUSES[i][1] : i \in 1 .. Len(BOARD_STATUSES)}

\* timedelta(days=14)
RetentionDays == 14

\* The decimal text of a primary key as it arrives in request.POST.
PkText == <<"1", "2", "3", "4", "5", "6", "7", "8", "9">>

\* Task.pk is the default integer AutoField: the lookup pk=task_id converts
\* the text with int(), which raises ValueError on a text that is not a
\* number.
IsNumber(task_id) == \E pk \in 1 .. Len(PkText) : PkText[pk] = task_id

\* Task.objects.filter(pk=task_id).exists()
TaskExists(table, task_id) ==
    \E pk \in 1 .. Len(table) : PkText[pk] = task_id

PkOf(table, task_id) ==
    CHOOSE pk \in 1 .. Len(table) : PkText[pk] = task_id

\* Task.objects.filter(status=status).aggregate(Max("order"))["max_order"] or 0
max_order_visible(table, status) ==
    LET orders == {table[pk].order : pk \in
                     {k \in 1 .. Len(table) :
                        /\ table[k].status = status
                        /\ (status = "done" =>
                              /\ table[k].completed_at # None
                              /\ table[k].completed_at[1] >= now - RetentionDays)}}
    IN  IF orders = {} THEN 0
        ELSE CHOOSE m \in orders : \A o \in orders : o <= m

max_order_of(table, status) ==
    LET orders == {table[pk].order : pk \in
                     {k \in 1 .. Len(table) : table[k].status = status}}
    IN  IF orders = {} THEN 0
        ELSE CHOOSE m \in orders : \A o \in orders : o <= m

\* if status == Task.Status.DONE and task.completed_at is None:
\*     task.completed_at = timezone.now()
stamp_completed_always(row, status, clock) ==
    IF status = "done" THEN Some(clock) ELSE row.completed_at

stamp_completed(row, status, clock) ==
    IF status = "done" /\ row.completed_at = None
       THEN Some(clock)
       ELSE row.completed_at

\* A row as the board query returns it: the stored fields and the pk.
WithPk(table, pk) ==
    [pk           |-> pk,
     status       |-> table[pk].status,
     order        |-> table[pk].order,
     completed_at |-> table[pk].completed_at,
     priority     |-> table[pk].priority,
     due_at       |-> table[pk].due_at,
     created_at   |-> table[pk].created_at]

\* .filter(status__in=[board codes])
\* .filter(Q(status=DONE, completed_at__gte=cutoff) | ~Q(status=DONE))
board_filter_no_cutoff(row, cutoff) ==
    row.status \in valid_statuses

board_filter(row, cutoff) ==
    /\ row.status \in valid_statuses
    /\ \/ row.status = "done" /\ row.completed_at # None
                              /\ row.completed_at[1] >= cutoff
       \/ row.status # "done"

\* due_at ascending.  Where a null due_at sorts depends on the database;
\* here it sorts before every date, as on SQLite.
DueBefore(a, b) ==
    \/ a = None /\ b # None
    \/ a # None /\ b # None /\ a[1] < b[1]

\* .order_by("order", "-priority", "due_at", "-created_at").  The query
\* leaves the order of rows equal on all four keys to the database; here
\* they are listed by primary key.
Before_priority_ascending(a, b) ==
    \/ a.order < b.order
    \/ /\ a.order = b.order
       /\ \/ a.priority < b.priority
          \/ /\ a.priority = b.priority
             /\ \/ DueBefore(a.due_at, b.due_at)
                \/ /\ a.due_at = b.due_at
                   /\ \/ a.created_at > b.created_at
                      \/ /\ a.created_at = b.created_at
                         /\ a.pk < b.pk

Before(a, b) ==
    \/ a.order < b.order
    \/ /\ a.order = b.order
       /\ \/ a.priority > b.priority
          \/ /\ a.priority = b.priority
             /\ \/ DueBefore(a.due_at, b.due_at)
                \/ /\ a.due_at = b.due_at
                   /\ \/ a.created_at > b.created_at
                      \/ /\ a.created_at = b.created_at
                         /\ a.pk < b.pk

RECURSIVE OrderBy(_)
OrderBy(rows) ==
    IF rows = {} THEN <<>>
    ELSE LET first == CHOOSE r \in rows :
                         \A o \in rows \ {r} : Before(r, o)
         IN  <<first>> \o OrderBy(rows \ {first})

\* grouped[task.status].append(task) over the ordered rows: the rows of
\* one status, in query order.
column_tasks_ungrouped(rows, code) == OrderBy(rows)

column_tasks(rows, code) == OrderBy({r \in rows : r.status = code})

\* One column per BOARD_STATUSES entry, in that order.
_fetch_board_context(table, clock) ==
    LET cutoff == clock - RetentionDays
        rows   == {r \in {WithPk(table, pk) : pk \in 1 .. Len(table)} :
                     board_filter(r, cutoff)}
    IN  [i \in 1 .. Len(BOARD_STATUSES) |->
            [code  |-> BOARD_STATUSES[i][1],
             label |-> BOARD_STATUSES[i][2],
             tasks |-> column_tasks(rows, BOARD_STATUSES[i][1])]]

----------------------------------------------------------------------------
(* The stored tasks and the requests of the tasks app *)

\* Largest number of rows in the Task table.
MaxTasks == 3

\* Largest order a move may assign (orders grow without limit in the code).
MaxOrder == 8

\* Number of requests served after the starting table.
MaxRequests == 1

\* Days that pass in one Tick, and the last day the clock reaches.
ClockStep == 10

MaxNow == 20

\* Orders of the rows present at the start.
InitOrders == {3, 7}

\* Values of a POST parameter: absent, empty, or a text.
TaskIdParams ==
    {None, Some(""), Some("abc")}
        \cup {Some(PkText[pk]) : pk \in 1 .. MaxTasks + 1}

StatusParams ==
    {None, Some("")} \cup {Some(st) : st \in Statuses}

TaskRow(st, ord, done_at) ==
    [status       |-> st,
     order        |-> ord,
     completed_at |-> done_at,
     priority     |-> PriorityNormal,
     due_at       |-> None,
     created_at   |-> 0,
     updated_at   |-> 0]

InitSocialIdle ==
    /\ today = Today
    /\ contact = [check_in_frequency_days |-> DefaultCadence,
                  last_contacted_at       |-> None,
                  annotated               |-> TRUE,
                  tp_max                  |-> None,
                  tp_recent               |-> 0]
    /\ strength = None

\* Position of a status in Task.Status, to list the starting rows in one
\* canonical sequence.
StatusRank(st) ==
    CASE st = "todo" -> 1
      [] st = "in_progress" -> 2
      [] st = "blocked" -> 3
      [] st = "cancelled" -> 4
      [] st = "done" -> 5

RowRank(row) ==
    (StatusRank(row.status) * (MaxOrder + 1) + row.order) * 2
        + (IF row.completed_at = None THEN 0 ELSE 1)

\* Rows present at the start.  A todo row may have been completed before
\* and moved back; a done row may never have been stamped (created or
\* edited into done); rows of the other statuses were never completed and
\* carry the lower of the two orders.
InitRows ==
    {TaskRow(st, ord, done_at) :
        st \in {"todo", "done"},
        ord \in InitOrders,
        done_at \in {None, Some(0)}}
    \cup {TaskRow(st, 3, None) :
            st \in {"in_progress", "blocked", "cancelled"}}

\* Any rows can be in the table: the admin site saves tasks with every
\* field editable (tasks/admin.py).  Tables that differ only by a renaming
\* of primary keys are listed once, rows in rank order.
Init ==
    /\ \E n \in 0 .. MaxTasks :
          /\ tasks \in [1 .. n -> InitRows]
          /\ \A i \in 1 .. n : \A j \in 1 .. n :
                i < j => RowRank(tasks[i]) <= RowRank(tasks[j])
    /\ now = 0
    /\ response = None
    /\ columns = <<>>
    /\ requests = 0
    /\ inflight = <<>>
    /\ InitSocialIdle

\* Time passes between requests.
Tick ==
    /\ now + ClockStep <= MaxNow
    /\ now' = now + ClockStep
    /\ UNCHANGED <<tasks, response, columns, requests, inflight, socialVars>>

\* board_fragment: GET of the board partial.
BoardFragment ==
    /\ requests < MaxRequests
    /\ requests' = requests + 1
    /\ response' = Some([view            |-> "board_fragment",
                         status_code     |-> 200,
                         error           |-> FALSE,
                         dropped_task_pk |-> None])
    /\ columns' = _fetch_board_context(tasks, now)
    /\ UNCHANGED <<tasks, now, inflight, socialVars>>

\* task.save(update_fields=...): one UPDATE of the row whose pk is task.pk.
save_renumbering(table, pk, row) ==
    [k \in 1 .. Len(table) |->
        IF k = pk THEN row
        ELSE IF /\ table[k].status = table[pk].status
                /\ table[k].order > table[pk].order
             THEN [table[k] EXCEPT !.order = @ - 1]
             ELSE table[k]]

save(table, pk, row) == [table EXCEPT ![pk] = row]

\* if not task_id or not status or status not in valid_statuses
move_rejected_no_membership(task_id, status) ==
    \/ task_id = None \/ task_id = Some("")
    \/ status = None \/ status = Some("")

move_rejected(task_id, status) ==
    \/ task_id = None \/ task_id = Some("")
    \/ status = None \/ status = Some("")
    \/ status[1] \notin valid_statuses

\* move_task: POST task_id, status
move_task(task_id, status) ==
    /\ IF move_rejected(task_id, status)
       THEN /\ tasks' = tasks
            /\ response' = Some([view            |-> "move_task",
                                 status_code     |-> 400,
                                 error           |-> TRUE,
                                 dropped_task_pk |-> None])
            /\ columns' = _fetch_board_context(tasks, now)
       ELSE IF ~IsNumber(task_id[1])
       THEN /\ tasks' = tasks
            /\ response' = Some([view            |-> "move_task",
                                 status_code     |-> 500,
                                 error           |-> TRUE,
                                 dropped_task_pk |-> None])
            /\ columns' = <<>>
       ELSE IF ~TaskExists(tasks, task_id[1])
       THEN /\ tasks' = tasks
            /\ response' = Some([view            |-> "move_task",
                                 status_code     |-> 404,
                                 error           |-> TRUE,
                                 dropped_task_pk |-> None])
            /\ columns' = <<>>
       ELSE LET pk        == PkOf(tasks, task_id[1])
                max_order == max_order_of(tasks, status[1])
                moved     == [tasks[pk] EXCEPT
                                !.status       = status[1],
                                !.order        = max_order + 1,
                                !.completed_at =
                                    stamp_completed(tasks[pk], status[1], now),
                                !.updated_at   = now]
            IN  /\ response' = Some([view            |-> "move_task",
                                     status_code     |-> 200,
                                     error           |-> FALSE,
                                     dropped_task_pk |-> Some(pk)])
                /\ max_order + 1 <= MaxOrder
                /\ tasks' = save(tasks, pk, moved)
                /\ columns' = _fetch_board_context(tasks', now)
    /\ UNCHANGED <<now, inflight, socialVars>>

\* One move_task request, out of the MaxRequests served.
MoveTask(task_id, status) ==
    /\ requests < MaxRequests
    /\ requests' = requests + 1
    /\ move_task(task_id, status)

Next ==
    \/ Tick
    \/ BoardFragment
    \/ \E task_id \in TaskIdParams, status \in StatusParams :
          MoveTask(task_id, status)

Spec == Init /\ [][Next]_vars

----------------------------------------------------------------------------
(* Properties of _compute_strength, checked under SpecStrength *)

Computed == strength # None

Dated == strength # None /\ strength[1].days_since # None

\* C1: for every cadence > 0, every last-contact date (absent, past, today
\* or future) and every recent-touchpoint count, the score is an integer
\* with 5 <= score <= 100.
C1_ScoreInRange ==
    (Computed /\ contact.check_in_frequency_days > 0)
        => strength[1].score \in 5 .. 100

\* A contact with positive cadence whose raw score 100 - penalty + boost
\* fell below 5 and was raised to 5.
C1_Witness ==
    /\ Dated
    /\ contact.check_in_frequency_days > 0
    /\ 100 - freshness_penalty(strength[1].days_since[1], target_days(contact))
           + consistency_boost(contact) < 5
    /\ strength[1].score = 5

\* C2: when a last-contact date exists, score = clamp(100 -
\* floor(days_since * 60 / target) + min(10, 2 * count), 5, 100), also for
\* negative days_since; cadence 30, 45 days, 1 recent touchpoint scores 12.
C2_ScoreFormula ==
    Dated =>
        LET d == strength[1].days_since[1]
            t == strength[1].next_due_in + d
            n == strength[1].touchpoints_recent
        IN  /\ strength[1].score =
                 Max2(5, Min2(100, 100 - ((d * 60) \div t) + Min2(10, 2 * n)))
            /\ (t = 30 /\ d = 45 /\ n = 1) => strength[1].score = 12

\* The worked example: cadence 30, last contact 45 days ago, one recent
\* touchpoint, score 12.
C2_Witness ==
    /\ Dated
    /\ contact.check_in_frequency_days = 30
    /\ strength[1].days_since = Some(45)
    /\ strength[1].touchpoints_recent = 1
    /\ strength[1].score = 12

\* C3: with a last-contact date, (label, state) follows the inclusive
\* thresholds 2d <= t, d <= t, 2d <= 3t; d = 0 is Strong, d = target is
\* Steady, target 30 with d = 31 or 45 is Needs touch.
C3_LabelThresholds ==
    Dated =>
        LET d  == strength[1].days_since[1]
            t  == strength[1].next_due_in + d
            ls == <<strength[1].label, strength[1].state>>
        IN  /\ (2 * d <= t) => ls = <<"Strong", "success">>
            /\ (2 * d > t /\ d <= t) => ls = <<"Steady", "primary">>
            /\ (d > t /\ 2 * d <= 3 * t) => ls = <<"Needs touch", "warning">>
            /\ (2 * d > 3 * t) => ls = <<"At risk", "danger">>
            /\ (d = 0) => ls[1] = "Strong"
            /\ (d = t) => ls[1] = "Steady"
            /\ (t = 30 /\ d \in {31, 45}) => ls[1] = "Needs touch"

\* Cadence 30 exactly 45 days after the last contact: the inclusive upper
\* boundary of "Needs touch".
C3_Witness ==
    /\ Dated
    /\ contact.check_in_frequency_days = 30
    /\ strength[1].days_since = Some(45)
    /\ strength[1].label = "Needs touch"
    /\ strength[1].state = "warning"

\* C4: a contact with cadence > 0, no touchpoint and a null
\* last_contacted_at gets Cold start / danger / 25, days_since null,
\* next_due_in = cadence and overdue_by null.
C4_ColdStart ==
    (/\ Computed
     /\ contact.check_in_frequency_days > 0
     /\ contact.tp_max = None
     /\ contact.last_contacted_at = None)
        => /\ strength[1].label = "Cold start"
           /\ strength[1].state = "danger"
           /\ strength[1].score = 25
           /\ strength[1].days_since = None
           /\ strength[1].next_due_in = contact.check_in_frequency_days
           /\ strength[1].overdue_by = None

\* A never-contacted contact with cadence 7 has been scored.
C4_Witness ==
    /\ Computed
    /\ contact.check_in_frequency_days = 7
    /\ contact.tp_max = None
    /\ contact.last_contacted_at = None
    /\ strength[1].label = "Cold start"
    /\ strength[1].next_due_in = 7

\* C5: with a last-contact date, next_due_in = target - days_since, and
\* overdue_by = -next_due_in when next_due_in < 0 and null otherwise;
\* target 30 and days_since 45 give -15 and 15.
C5_NextDueOverdue ==
    Dated =>
        LET d   == strength[1].days_since[1]
            t   == target_days(contact)
            due == strength[1].next_due_in
        IN  /\ due = t - d
            /\ (due < 0) => strength[1].overdue_by = Some(-due)
            /\ (due >= 0) => strength[1].overdue_by = None
            /\ (t = 30 /\ d = 45) =>
                  /\ due = -15
                  /\ strength[1].overdue_by = Some(15)

\* A contact scored exactly on its due day: next_due_in = 0, not overdue.
C5_Witness ==
    /\ Dated
    /\ strength[1].days_since = Some(target_days(contact))
    /\ strength[1].next_due_in = 0
    /\ strength[1].overdue_by = None

\* The target a result was computed with, read back from the result.
UsedTarget ==
    IF strength[1].days_since = None
       THEN strength[1].next_due_in
       ELSE strength[1].next_due_in + strength[1].days_since[1]

\* C6 as stated: the target equals max(cadence_days, 1) for every stored
\* cadence, so that cadence 0 is scored with target 1.
C6_TargetIsMaxCadenceOne ==
    Computed => UsedTarget = Max2(contact.check_in_frequency_days, 1)

\* C6 amended: the target equals max(cadence_days, 1) for every stored
\* cadence >= 1, and a stored cadence of 0 falls back to the default 30.
C6_TargetDefaultsOnZero ==
    Computed =>
        /\ (contact.check_in_frequency_days >= 1) =>
              UsedTarget = Max2(contact.check_in_frequency_days, 1)
        /\ (contact.check_in_frequency_days = 0) => UsedTarget = 30

\* A cold-start contact with stored cadence 0 is given next_due_in = 30.
C6_Witness ==
    /\ Computed
    /\ contact.check_in_frequency_days = 0
    /\ strength[1].days_since = None
    /\ strength[1].next_due_in = 30

----------------------------------------------------------------------------
(* Properties of move_task and of the board, checked under Spec *)

SetMax(S) == IF S = {} THEN 0 ELSE CHOOSE m \in S : \A o \in S : o <= m

BoardCodes == <<"todo", "in_progress", "blocked", "done">>

\* The requests C7 says are invalid.
InvalidMove(task_id, status) ==
    \/ task_id \in {None, Some("")}
    \/ status \in {None, Some("")}
    \/ status[1] \notin {"todo", "in_progress", "blocked", "done"}

\* C7: move_task answers 400 with the current board columns whenever task_id
\* or status is missing or empty or status is not a board status (so
\* "cancelled" is rejected), and a rejected request changes no stored task.
\* Stated step by step: a step either is such a rejection, or it is not the
\* handling of any invalid request.
C7_InvalidMoveRejected ==
    [][\/ /\ tasks' = tasks
          /\ response' # None
          /\ response'[1].view = "move_task"
          /\ response'[1].status_code = 400
          /\ columns' = _fetch_board_context(tasks, now)
       \/ \A task_id \in TaskIdParams, status \in StatusParams :
             InvalidMove(task_id, status) => ~MoveTask(task_id, status)]_vars

\* A rejected move over a non-empty table: 400 with a board that still
\* shows a task, while a cancelled row sits in the table.
C7_Witness ==
    /\ response # None
    /\ response[1].view = "move_task"
    /\ response[1].status_code = 400
    /\ \E i \in 1 .. 4 : Len(columns[i].tasks) > 0
    /\ \E pk \in 1 .. Len(tasks) : tasks[pk].status = "cancelled"

\* C8: an accepted move sets status to newStatus and order to 1 + the
\* maximum order over all stored tasks having newStatus before the move (the
\* moved task and hidden done tasks included; empty column counts as 0);
\* orders {3,3,7} give 8 and an empty column gives 1.
C8_MoveAppendsAtMaxPlusOne ==
    [][\/ response' = None
       \/ response'[1].status_code # 200
       \/ \A task_id \in TaskIdParams, status \in StatusParams :
             \/ LET pk     == response'[1].dropped_task_pk[1]
                    column == {k \in 1 .. Len(tasks) :
                                  tasks[k].status = status[1]}
                    orders == {tasks[k].order : k \in column}
                IN  /\ response'[1].dropped_task_pk # None
                    /\ task_id # None
                    /\ status # None
                    /\ PkText[pk] = task_id[1]
                    /\ tasks'[pk].status = status[1]
                    /\ tasks'[pk].order = 1 + SetMax(orders)
                    /\ (column = {}) => tasks'[pk].order = 1
                    /\ (Cardinality(column) = 3 /\ orders = {3, 7})
                          => tasks'[pk].order = 8
             \/ ~MoveTask(task_id, status)]_vars

\* The moved task received order 8 while the two other rows of its column
\* both carry order 3: the column held orders {3,3,7} when it was read.
C8_Witness ==
    /\ response # None
    /\ response[1].view = "move_task"
    /\ response[1].status_code = 200
    /\ Len(tasks) = 3
    /\ LET pk == response[1].dropped_task_pk[1]
       IN  /\ tasks[pk].order = 8
           /\ \A k \in 1 .. 3 :
                 k # pk => /\ tasks[k].status = tasks[pk].status
                           /\ tasks[k].order = 3

\* C9: in any sequence of moves, a move stamps completed_at with the current
\* time only on a task moved to done whose completed_at was null; a non-null
\* completed_at is never changed by a later move.
C9_CompletedAtStampedOnce ==
    [][\/ /\ Len(tasks') = Len(tasks)
          /\ \A pk \in 1 .. Len(tasks) :
                /\ (tasks[pk].completed_at # None)
                      => tasks'[pk].completed_at = tasks[pk].completed_at
                /\ (tasks[pk].completed_at = None
                      /\ tasks'[pk].completed_at # None)
                      => /\ tasks'[pk].status = "done"
                         /\ tasks'[pk].completed_at = Some(now)
                /\ (tasks[pk].completed_at = None
                      /\ tasks'[pk].status = "done"
                      /\ tasks'[pk] # tasks[pk])
                      => tasks'[pk].completed_at = Some(now)
       \/ \A task_id \in TaskIdParams, status \in StatusParams :
             ~MoveTask(task_id, status)]_vars

\* A task completed on day 0 was moved to done again on a later day and
\* kept its completed_at.
C9_Witness ==
    /\ response # None
    /\ response[1].view = "move_task"
    /\ response[1].status_code = 200
    /\ LET pk == response[1].dropped_task_pk[1]
       IN  /\ tasks[pk].status = "done"
           /\ tasks[pk].completed_at = Some(0)
           /\ tasks[pk].updated_at > 0

\* C10: for every stored set of tasks the board has exactly the four
\* columns todo, in_progress, blocked, done in that order; a column holds
\* only tasks whose stored status is its code, no task appears twice, and
\* no cancelled task appears.
C10_BoardColumns ==
    LET board == _fetch_board_context(tasks, now)
        shown   == {<<i, j>> \in (1 .. Len(board)) \X (1 .. Len(tasks)) :
                       j <= Len(board[i].tasks)}
    IN  /\ Len(board) = 4
        /\ \A i \in 1 .. 4 : board[i].code = BoardCodes[i]
        /\ \A p \in shown :
              LET row == board[p[1]].tasks[p[2]]
              IN  /\ row.pk \in 1 .. Len(tasks)
                  /\ tasks[row.pk].status = board[p[1]].code
                  /\ tasks[row.pk].status # "cancelled"
        /\ \A p \in shown : \A q \in shown :
              (board[p[1]].tasks[p[2]].pk = board[q[1]].tasks[q[2]].pk)
                 => p = q
        /\ \A i \in 1 .. 4 : Len(board[i].tasks) <= Len(tasks)

\* A board was served for a table holding a cancelled row and two tasks of
\* one visible column.
C10_Witness ==
    /\ response # None
    /\ response[1].status_code = 200
    /\ columns = _fetch_board_context(tasks, now)
    /\ \E pk \in 1 .. Len(tasks) : tasks[pk].status = "cancelled"
    /\ \E i \in 1 .. 4 : Len(columns[i].tasks) = 2

\* Whether the board built from the stored tasks lists the task pk.
ShownOnBoard(board, pk) ==
    \E i \in 1 .. Len(board) :
       \E j \in 1 .. Len(board[i].tasks) : board[i].tasks[j].pk = pk

C11_Retention ==
    LET board == _fetch_board_context(tasks, now)
    IN  \A pk \in 1 .. Len(tasks) :
           /\ (tasks[pk].status = "done")
                 => (ShownOnBoard(board, pk)
                        <=> /\ tasks[pk].completed_at # None
                            /\ tasks[pk].completed_at[1] >= now - 14)
           /\ (tasks[pk].status = "done"
                 /\ tasks[pk].completed_at = Some(now - 10))
                 => ShownOnBoard(board, pk)
           /\ (tasks[pk].status = "done"
                 /\ tasks[pk].completed_at = Some(now - 20))
                 => ~ShownOnBoard(board, pk)
           /\ (tasks[pk].status \in {"todo", "in_progress", "blocked"})
                 => ShownOnBoard(board, pk)

\* C11: a done task appears on the board iff its completed_at is at or
\* after now minus 14 days (completed 10 days ago: shown; 20 days ago: not
\* shown); every todo, in_progress or blocked task appears whatever its
\* completed_at; and serving the board deletes or modifies no stored task.
C11_DoneRetention ==
    /\ []C11_Retention
    /\ [][tasks' = tasks \/ ~BoardFragment]_vars

\* The board was served 20 days after a done task was completed: the done
\* column is empty, the task is still stored, and a todo task completed on
\* the same day is shown.
C11_Witness ==
    /\ response # None
    /\ response[1].view = "board_fragment"
    /\ now = 20
    /\ columns[4].tasks = <<>>
    /\ \E pk \in 1 .. Len(tasks) :
          tasks[pk].status = "done" /\ tasks[pk].completed_at = Some(0)
    /\ \E pk \in 1 .. Len(tasks) :
          /\ tasks[pk].status = "todo"
          /\ tasks[pk].completed_at = Some(0)
          /\ ShownOnBoard(columns, pk)

----------------------------------------------------------------------------
(* The board over tasks that differ in every sort key *)

\* Largest number of rows in the table whose board order is examined.
MaxSortTasks == 3

\* Values of the sort keys of the stored rows.
SortStatuses == {"todo", "blocked"}

SortOrders == {1, 2}

SortPriorities == {PriorityNormal, PriorityNormal + 1}

SortDues == {None, Some(1), Some(2)}

SortCreated == {0, 1}

SortRows ==
    {[status       |-> st,
      order        |-> ord,
      completed_at |-> None,
      priority     |-> pri,
      due_at       |-> due,
      created_at   |-> created,
      updated_at   |-> created] :
        st \in SortStatuses, ord \in SortOrders, pri \in SortPriorities,
        due \in SortDues, created \in SortCreated}

\* Rank that lists the rows of a table in one canonical sequence; it runs
\* against the board order (oldest first, late and null due dates last,
\* low priority first, high order first).
SortRank(row) ==
    ((((row.created_at * 3
          + (IF row.due_at = None THEN 2 ELSE row.due_at[1] - 1)) * 5
          + row.priority) * (MaxOrder + 1)
          + (MaxOrder - row.order)) * 2)
        + (IF row.status = "todo" THEN 0 ELSE 1)

InitSort ==
    /\ InitTasksIdle
    /\ InitSocialIdle

\* TaskAdmin: a task is added through the admin site with any field values.
AdminAddTask(row) ==
    /\ response = None
    /\ Len(tasks) < MaxSortTasks
    /\ Len(tasks) > 0 => SortRank(tasks[Len(tasks)]) <= SortRank(row)
    /\ tasks' = Append(tasks, row)
    /\ UNCHANGED <<now, response, columns, requests, inflight, socialVars>>

NextSort ==
    \/ \E row \in SortRows : AdminAddTask(row)
    \/ BoardFragment

SpecSort == InitSort /\ [][NextSort]_vars

----------------------------------------------------------------------------
(* Properties of the order within a column, checked under SpecSort *)

\* C12: within each column the tasks are listed by order ascending, then
\* priority descending, then due date ascending, then created_at
\* descending; two tasks of one column with equal order are listed higher
\* priority first.  (Where a task without due date is placed among tasks
\* equal on order and priority is not constrained.)
C12_ColumnOrder ==
    LET board == _fetch_board_context(tasks, now)
    IN  \A i \in 1 .. Len(board) :
           \A j \in 1 .. Len(board[i].tasks) :
              \A k \in 1 .. Len(board[i].tasks) :
                 LET a == tasks[board[i].tasks[j].pk]
                     b == tasks[board[i].tasks[k].pk]
                 IN  (j < k) =>
                        /\ a.order <= b.order
                        /\ (a.order = b.order) => a.priority >= b.priority
                        /\ (/\ a.order = b.order
                            /\ a.priority = b.priority
                            /\ a.due_at # None
                            /\ b.due_at # None)
                              => a.due_at[1] <= b.due_at[1]
                        /\ (/\ a.order = b.order
                            /\ a.priority = b.priority
                            /\ a.due_at = b.due_at)
                              => a.created_at >= b.created_at

\* A served column of three tasks with equal order: the higher priority
\* first although it was stored last, then two tasks of equal priority by
\* due date.
C12_Witness ==
    /\ response # None
    /\ response[1].view = "board_fragment"
    /\ \E i \in 1 .. 4 :
          /\ Len(columns[i].tasks) = 3
          /\ LET a == columns[i].tasks[1]
                 b == columns[i].tasks[2]
                 c == columns[i].tasks[3]
             IN  /\ a.order = b.order /\ b.order = c.order
                 /\ a.priority > b.priority
                 /\ a.pk > b.pk
                 /\ b.priority = c.priority
                 /\ b.due_at # None /\ c.due_at # None
                 /\ b.due_at[1] < c.due_at[1]

----------------------------------------------------------------------------
(* social/views.py : create_touchpoint *)

\* Largest number of touchpoints recorded for the contact.
MaxTouchpoints == 3

\* Dates a touchpoint form carries: outside the 90-day window, recent,
\* today, and in the future.
TouchDates == {Today - 95, Today - 3, Today, Today + 1}

\* POST parameter date: absent (the form is invalid) or a date.
TouchDateParams == {None} \cup {Some(d) : d \in TouchDates}

\* Stored last_contacted_at of the contact before any touchpoint: null or
\* any date.
StartLastContacted ==
    {None} \cup {Some(d) : d \in TouchDates \cup {Today - 50}}

\* Max("contacttouchpoint__date")
MaxTouchpointDate(dates) ==
    IF Len(dates) = 0 THEN None
    ELSE Some(CHOOSE d \in {dates[i] : i \in 1 .. Len(dates)} :
                 \A i \in 1 .. Len(dates) : dates[i] <= d)

\* Count("contacttouchpoint", filter=Q(contacttouchpoint__date__gte=...))
CountRecent(dates, day) ==
    Cardinality({i \in 1 .. Len(dates) : dates[i] >= day - RecentWindowDays})

\* Contact.objects.annotate(last_touchpoint=..., touchpoints_recent=...)
Annotate(c, day) ==
    [c EXCEPT !.annotated = TRUE,
              !.tp_max    = MaxTouchpointDate(c.touchpoints),
              !.tp_recent = CountRecent(c.touchpoints, day)]

\* _update_last_contacted
_update_last_contacted_always(c, date) ==
    [c EXCEPT !.last_contacted_at = Some(date)]

_update_last_contacted(c, date) ==
    IF c.last_contacted_at = None \/ date > c.last_contacted_at[1]
       THEN [c EXCEPT !.last_contacted_at = Some(date)]
       ELSE c

InitTouch ==
    /\ today = Today
    /\ \E lc \in StartLastContacted :
          contact = [check_in_frequency_days |-> DefaultCadence,
                     last_contacted_at       |-> lc,
                     annotated               |-> FALSE,
                     tp_max                  |-> None,
                     tp_recent               |-> 0,
                     touchpoints             |-> <<>>]
    /\ strength = None
    /\ InitTasksIdle

\* create_touchpoint: POST contact, date, channel
CreateTouchpoint(date) ==
    /\ Len(contact.touchpoints) < MaxTouchpoints
    /\ IF date = None
       THEN /\ contact' = contact
            /\ strength' = Some(_compute_strength(Annotate(contact, today),
                                                  today))
            /\ response' = Some([view        |-> "create_touchpoint",
                                 status_code |-> 400,
                                 error       |-> TRUE])
       ELSE LET saved   == [contact EXCEPT
                              !.touchpoints = Append(@, date[1])]
                updated == _update_last_contacted(saved, date[1])
            IN  /\ contact' = updated
                /\ strength' = Some(_compute_strength(Annotate(updated, today),
                                                      today))
                /\ response' = Some([view        |-> "create_touchpoint",
                                     status_code |-> 201,
                                     error       |-> FALSE])
    /\ UNCHANGED <<today, tasks, now, columns, requests, inflight>>

NextTouch == \E date \in TouchDateParams : CreateTouchpoint(date)

SpecTouch == InitTouch /\ [][NextTouch]_vars

----------------------------------------------------------------------------
(* Properties of create_touchpoint, checked under SpecTouch *)

\* The later of two optional dates.
LaterOf(a, b) ==
    IF a = None THEN b
    ELSE IF b = None THEN a
    ELSE IF a[1] >= b[1] THEN a ELSE b

CoversTouchpoints ==
    \A i \in 1 .. Len(contact.touchpoints) :
       /\ contact.last_contacted_at # None
       /\ contact.last_contacted_at[1] >= contact.touchpoints[i]

\* C13 as stated: last_contacted_at is >= the date of every recorded
\* touchpoint and, once a touchpoint exists, equals the maximum touchpoint
\* date, from any starting last_contacted_at.
C13_EqualsMaxTouchpoint ==
    /\ CoversTouchpoints
    /\ (Len(contact.touchpoints) > 0)
          => contact.last_contacted_at = MaxTouchpointDate(contact.touchpoints)

\* C13, amended: from any starting last_contacted_at and after any sequence
\* of successful create_touchpoint operations run one at a time,
\* last_contacted_at is >= the date of every recorded touchpoint and equals
\* the later of its starting value and the maximum touchpoint date (so it
\* equals the maximum touchpoint date when the starting value was null or
\* not later than it).
C13_LaterOfStartAndMax ==
    \A start \in StartLastContacted :
       (contact.last_contacted_at = start /\ contact.touchpoints = <<>>)
          => [](/\ CoversTouchpoints
                /\ (Len(contact.touchpoints) > 0)
                      => contact.last_contacted_at
                            = LaterOf(start,
                                      MaxTouchpointDate(contact.touchpoints)))

\* Two touchpoints were recorded, the older one last, for a contact whose
\* last_contacted_at lies after both.
C13_Witness ==
    /\ response # None
    /\ response[1].status_code = 201
    /\ Len(contact.touchpoints) = 2
    /\ contact.touchpoints[2] < contact.touchpoints[1]
    /\ contact.last_contacted_at # None
    /\ contact.last_contacted_at[1] > contact.touchpoints[1]

----------------------------------------------------------------------------
(* tasks/views.py : move_task handled by two workers at once.  Each ORM    *)
(* call of the view is one step: the lookup, the Max("order") aggregate,   *)
(* the save, and the board query of the response.                          *)

\* Largest number of rows in the table the two workers act on.
MaxRaceTasks == 2

\* The two requests.
RaceRequests == {1, 2}

RaceTaskIds == {Some(PkText[pk]) : pk \in 1 .. MaxRaceTasks + 1}

RaceStatuses == {Some("blocked"), Some("done"), Some("cancelled")}

RaceRows == {TaskRow(st, ord, None) : st \in {"todo", "blocked"},
                                      ord \in InitOrders}

\* A worker that has not received its request.
IdleWorker ==
    [pc |-> "idle", pk |-> 0, status |-> "", completed_at |-> None,
     max_order |-> 0, status_code |-> 0, saved_before_read |-> {}]

\* Requests whose save has been executed.
Saved == {r \in DOMAIN inflight : inflight[r].pc \in {"render", "done"}
                                  /\ inflight[r].status_code = 200}

InitRace ==
    /\ \E n \in 0 .. MaxRaceTasks :
          /\ tasks \in [1 .. n -> RaceRows]
          /\ \A i \in 1 .. n : \A j \in 1 .. n :
                i < j => RowRank(tasks[i]) <= RowRank(tasks[j])
    /\ now = 0
    /\ response = None
    /\ columns = <<>>
    /\ requests = 0
    /\ inflight = [r \in RaceRequests |-> IdleWorker]
    /\ InitSocialIdle

\* Validation, and task = get_object_or_404(Task, pk=task_id)
RaceBegin(r, task_id, status) ==
    /\ inflight[r].pc = "idle"
    /\ IF move_rejected(task_id, status)
       THEN /\ inflight' = [inflight EXCEPT ![r].pc = "done",
                                            ![r].status_code = 400]
            /\ response' = Some([view            |-> "move_task",
                                 status_code     |-> 400,
                                 error           |-> TRUE,
                                 dropped_task_pk |-> None])
            /\ columns' = _fetch_board_context(tasks, now)
       ELSE IF ~TaskExists(tasks, task_id[1])
       THEN /\ inflight' = [inflight EXCEPT ![r].pc = "done",
                                            ![r].status_code = 404]
            /\ response' = Some([view            |-> "move_task",
                                 status_code     |-> 404,
                                 error           |-> TRUE,
                                 dropped_task_pk |-> None])
            /\ columns' = <<>>
       ELSE LET pk == PkOf(tasks, task_id[1])
            IN  /\ inflight' = [inflight EXCEPT
                                  ![r].pc = "read",
                                  ![r].pk = pk,
                                  ![r].status = status[1],
                                  ![r].completed_at = tasks[pk].completed_at]
                /\ UNCHANGED <<response, columns>>
    /\ requests' = requests + 1
    /\ UNCHANGED <<tasks, now, socialVars>>

\* max_order = Task.objects.filter(status=status).aggregate(...) or 0
RaceReadMax(r) ==
    /\ inflight[r].pc = "read"
    /\ inflight' = [inflight EXCEPT
                      ![r].pc = "save",
                      ![r].max_order = max_order_of(tasks, inflight[r].status),
                      ![r].saved_before_read = Saved]
    /\ UNCHANGED <<tasks, now, response, columns, requests, socialVars>>

\* task.save(update_fields=update_fields), the order taken anew from the
\* table inside the save.
RaceSave_atomic(r) ==
    /\ inflight[r].pc = "save"
    /\ LET w  == inflight[r]
           pk == w.pk
       IN  tasks' = [tasks EXCEPT
                       ![pk].status = w.status,
                       ![pk].order = max_order_of(tasks, w.status) + 1,
                       ![pk].updated_at = now,
                       ![pk].completed_at =
                           IF w.status = "done" /\ w.completed_at = None
                              THEN Some(now) ELSE @]
    /\ inflight' = [inflight EXCEPT ![r].pc = "render",
                                    ![r].status_code = 200]
    /\ UNCHANGED <<now, response, columns, requests, socialVars>>

\* task.save(update_fields=update_fields): the fields set on the instance
\* fetched by this worker are written; completed_at is written only when
\* that instance had none.
RaceSave(r) ==
    /\ inflight[r].pc = "save"
    /\ LET w  == inflight[r]
           pk == w.pk
       IN  tasks' = [tasks EXCEPT
                       ![pk].status = w.status,
                       ![pk].order = w.max_order + 1,
                       ![pk].updated_at = now,
                       ![pk].completed_at =
                           IF w.status = "done" /\ w.completed_at = None
                              THEN Some(now) ELSE @]
    /\ inflight' = [inflight EXCEPT ![r].pc = "render",
                                    ![r].status_code = 200]
    /\ UNCHANGED <<now, response, columns, requests, socialVars>>

\* render(..., {**_fetch_board_context(), "dropped_task_pk": task.pk})
RaceRender(r) ==
    /\ inflight[r].pc = "render"
    /\ inflight' = [inflight EXCEPT ![r].pc = "done"]
    /\ response' = Some([view            |-> "move_task",
                         status_code     |-> 200,
                         error           |-> FALSE,
                         dropped_task_pk |-> Some(inflight[r].pk)])
    /\ columns' = _fetch_board_context(tasks, now)
    /\ UNCHANGED <<tasks, now, requests, socialVars>>

NextRace ==
    \E r \in RaceRequests :
       \/ \E task_id \in RaceTaskIds, status \in RaceStatuses :
             RaceBegin(r, task_id, status)
       \/ RaceReadMax(r)
       \/ RaceSave(r)
       \/ RaceRender(r)

SpecRace == InitRace /\ [][NextRace]_vars

----------------------------------------------------------------------------
(* Properties of concurrent moves, checked under SpecRace *)

\* Two accepted moves of different tasks into one column, both saved.
BothMoved(r1, r2) ==
    /\ r1 # r2
    /\ r1 \in Saved
    /\ r2 \in Saved
    /\ inflight[r1].pk # inflight[r2].pk
    /\ inflight[r1].status = inflight[r2].status

\* C14: when two move_task requests for different tasks into the same
\* column both read the column's maximum order before either saves, both
\* tasks end with the same order in that column; when one has saved before
\* the other reads (in particular when each runs to completion before the
\* next begins), the two tasks receive different orders.
C14_ConcurrentMovesCollide ==
    \A r1 \in DOMAIN inflight : \A r2 \in DOMAIN inflight :
       BothMoved(r1, r2) =>
          LET a == tasks[inflight[r1].pk]
              b == tasks[inflight[r2].pk]
          IN  /\ a.status = inflight[r1].status
              /\ b.status = inflight[r2].status
              /\ (/\ inflight[r1].saved_before_read = {}
                  /\ inflight[r2].saved_before_read = {})
                    => a.order = b.order
              /\ (r1 \in inflight[r2].saved_before_read)
                    => a.order # b.order

\* Both requests were answered 200 after reading the maximum before either
\* saved, and the two tasks share status and order.
C14_Witness ==
    /\ DOMAIN inflight = RaceRequests
    /\ BothMoved(1, 2)
    /\ inflight[1].pc = "done"
    /\ inflight[2].pc = "done"
    /\ inflight[1].saved_before_read = {}
    /\ inflight[2].saved_before_read = {}
    /\ tasks[inflight[1].pk].order = tasks[inflight[2].pk].order
    /\ tasks[inflight[1].pk].status = tasks[inflight[2].pk].status

----------------------------------------------------------------------------
(* Properties of move_task's lookup, checked under Spec *)

\* A request that names no stored task.
NamesNoTask(task_id) ==
    /\ task_id # None
    /\ task_id # Some("")
    /\ ~TaskExists(tasks, task_id[1])

\* C15: a move_task request with a valid board status and a task id that
\* matches no stored task is answered NotFound (404) and changes no stored
\* task; a request naming a nonexistent task with a missing or non-board
\* status is answered InvalidRequest (400), validation running first.
C15_UnknownTaskNotFound ==
    [][\A task_id \in TaskIdParams, status \in StatusParams :
          \/ ~NamesNoTask(task_id)
          \/ /\ tasks' = tasks
             /\ response' # None
             /\ response'[1].status_code =
                   (IF status \in {Some(st) : st \in valid_statuses}
                       THEN 404 ELSE 400)
          \/ ~MoveTask(task_id, status)]_vars

----------------------------------------------------------------------------
(* Frame of an accepted move, checked under Spec *)

\* C16: an accepted move_task changes only the moved task's status, order
\* and updated_at, plus completed_at only when it is stamped (moved to done
\* with none set); every other task is unchanged, so the tasks left in the
\* source column are not renumbered; and a task moved out of done keeps its
\* completed_at.
C16_MoveFrame ==
    [][\/ response' = None
       \/ response'[1].status_code # 200
       \/ response'[1].view # "move_task"
       \/ LET pk == response'[1].dropped_task_pk[1]
          IN  /\ Len(tasks') = Len(tasks)
              /\ \A k \in 1 .. Len(tasks) : k # pk => tasks'[k] = tasks[k]
              /\ tasks'[pk].priority = tasks[pk].priority
              /\ tasks'[pk].due_at = tasks[pk].due_at
              /\ tasks'[pk].created_at = tasks[pk].created_at
              /\ (tasks'[pk].completed_at # tasks[pk].completed_at)
                    => /\ tasks'[pk].status = "done"
                       /\ tasks[pk].completed_at = None
              /\ (tasks[pk].status = "done" /\ tasks'[pk].status # "done")
                    => tasks'[pk].completed_at = tasks[pk].completed_at
       \/ \A task_id \in TaskIdParams, status \in StatusParams :
             ~MoveTask(task_id, status)]_vars

\* A completed task was moved to in_progress on a later day and kept its
\* completed_at, while the two tasks it left behind in the done column
\* still carry orders 3 and 7 and their first updated_at.
C16_Witness ==
    /\ response # None
    /\ response[1].view = "move_task"
    /\ response[1].status_code = 200
    /\ Len(tasks) = 3
    /\ LET pk == response[1].dropped_task_pk[1]
       IN  /\ tasks[pk].status = "in_progress"
           /\ tasks[pk].completed_at = Some(0)
           /\ tasks[pk].updated_at > 0
           /\ \A k \in 1 .. 3 :
                 k # pk => /\ tasks[k].status = "done"
                           /\ tasks[k].updated_at = 0
           /\ {tasks[k].order : k \in (1 .. 3) \ {pk}} = {3, 7}

----------------------------------------------------------------------------
(* core/middleware.py : SuperuserRequiredMiddleware *)

\* Number of requests that pass through the middleware.
MaxGateRequests == 3

\* A path is a sequence of pieces of text; its text is their concatenation.
\* The pieces are cut at the ends of the prefixes the middleware tests, so
\* that one path starts with another, piece by piece, exactly when its text
\* starts with the other's text.
StartsWith(path, prefix) ==
    /\ Len(prefix) <= Len(path)
    /\ SubSeq(path, 1, Len(prefix)) = prefix

\* reverse("login"), reverse("logout")
LoginUrl == <<"/login", "/">>

LogoutUrl == <<"/logout", "/">>

exempt_paths == {LoginUrl, LogoutUrl}

\* The five path.startswith(...) tests.
exempt_prefix_admin(path) ==
    \/ StartsWith(path, <<"/static", "/">>)
    \/ StartsWith(path, <<"/__reload__", "/">>)
    \/ StartsWith(path, <<"/favicon.ico">>)
    \/ StartsWith(path, <<"/admin">>)

exempt_prefix(path) ==
    \/ StartsWith(path, <<"/static", "/">>)
    \/ StartsWith(path, <<"/__reload__", "/">>)
    \/ StartsWith(path, <<"/favicon.ico">>)
    \/ StartsWith(path, <<"/admin", "/login">>)
    \/ StartsWith(path, <<"/admin", "/js">>)

\* request.path of the requests.
GatePaths ==
    { <<"/">>,
      <<"/static", "/", "app.css">>,
      <<"/static">>,
      <<"/static", "files/app.css">>,
      <<"/__reload__", "/", "events/">>,
      <<"/__reload__">>,
      <<"/favicon.ico">>,
      <<"/favicon.ico", "n">>,
      <<"/admin", "/">>,
      <<"/admin", "/login", "/">>,
      <<"/admin", "/login", "s/">>,
      <<"/admin", "/js", "i18n/">>,
      <<"/admin", "/tasks/task/">>,
      LoginUrl,
      LogoutUrl,
      <<"/login">>,
      <<"/login", "/", "reset/">>,
      <<"/tasks", "/board/">>,
      <<"/tasks", "/board/move/">> }

\* request.user: AnonymousUser, an ordinary user, a superuser.
GateUsers ==
    { [is_authenticated |-> FALSE, is_superuser |-> FALSE],
      [is_authenticated |-> TRUE,  is_superuser |-> FALSE],
      [is_authenticated |-> TRUE,  is_superuser |-> TRUE] }

\* Status codes the downstream handler answers with.
HandlerStatuses == {200, 404}

InitGate ==
    /\ InitTasksIdle
    /\ InitSocialIdle

\* self.get_response(request)
get_response(path, user, code) ==
    [view |-> "middleware", path |-> path, user |-> user,
     handler_ran |-> TRUE, status_code |-> code, location |-> None]

\* SuperuserRequiredMiddleware.__call__
Gate(path, user, code) ==
    /\ requests < MaxGateRequests
    /\ requests' = requests + 1
    /\ response' =
          Some(IF exempt_prefix(path) THEN get_response(path, user, code)
               ELSE IF path \in exempt_paths
                  THEN get_response(path, user, code)
               ELSE IF ~user.is_authenticated
                  THEN [view |-> "middleware", path |-> path, user |-> user,
                        handler_ran |-> FALSE, status_code |-> 302,
                        location |-> Some(LoginUrl \o <<"?next=">> \o path)]
               ELSE IF ~user.is_superuser
                  THEN [view |-> "middleware", path |-> path, user |-> user,
                        handler_ran |-> FALSE, status_code |-> 403,
                        location |-> None]
               ELSE get_response(path, user, code))
    /\ UNCHANGED <<tasks, now, columns, inflight, socialVars>>

NextGate ==
    \E path \in GatePaths, user \in GateUsers, code \in HandlerStatuses :
       Gate(path, user, code)

SpecGate == InitGate /\ [][NextGate]_vars

----------------------------------------------------------------------------
(* Properties of the middleware, checked under SpecGate *)

\* The paths C17 calls exempt.
ExemptPath(path) ==
    \/ \E prefix \in { <<"/static", "/">>, <<"/__reload__", "/">>,
                       <<"/favicon.ico">>, <<"/admin", "/login">>,
                       <<"/admin", "/js">> } : StartsWith(path, prefix)
    \/ path = LoginUrl
    \/ path = LogoutUrl

\* C17: for every request whose path is not exempt, the downstream handler
\* runs only if the user is authenticated and a superuser; an
\* unauthenticated request is redirected to the login URL with next=<path>
\* and an authenticated non-superuser receives 403, in both cases without
\* the handler running.
C17_SuperuserGate ==
    (response # None /\ ~ExemptPath(response[1].path)) =>
       LET r == response[1]
       IN  /\ r.handler_ran
                => (r.user.is_authenticated /\ r.user.is_superuser)
           /\ (~r.user.is_authenticated)
                => /\ ~r.handler_ran
                   /\ r.status_code = 302
                   /\ r.location = Some(LoginUrl \o <<"?next=">> \o r.path)
           /\ (r.user.is_authenticated /\ ~r.user.is_superuser)
                => /\ ~r.handler_ran
                   /\ r.status_code = 403

\* An anonymous request for /admin/ was redirected to the login URL with
\* next=/admin/ and the handler did not run.
C17_Witness ==
    /\ response # None
    /\ response[1].path = <<"/admin", "/">>
    /\ ~response[1].user.is_authenticated
    /\ ~response[1].handler_ran
    /\ response[1].location
          = Some(<<"/login", "/", "?next=", "/admin", "/">>)

----------------------------------------------------------------------------
(* The tasks app from an empty table: create_task, edit_task, move_task   *)
(* and Task.mark_done, one request at a time.                             *)

\* Number of operations performed on the table.
MaxOps == 3

\* POST parameter title: absent (the form is invalid) or a text.
TitleParams == {None, Some("t")}

\* POST parameter priority.
PriorityParams == {PriorityNormal, 4}

\* TaskForm(request.POST).is_valid(): title is required and status must be
\* one of Task.Status.
form_is_valid(title, status) ==
    /\ title # None
    /\ status # None
    /\ status[1] \in Statuses

InitOps ==
    /\ InitTasksIdle
    /\ InitSocialIdle

\* Task.objects.filter(status=task.status).aggregate(Max("order")) or 0,
\* then task.order = max_order + 1
create_order_count(table, status) ==
    Cardinality({pk \in 1 .. Len(table) : table[pk].status = status}) + 1

create_order(table, status) == max_order_of(table, status) + 1

\* create_task: POST of the add-task form
CreateTask(title, status, priority) ==
    /\ requests < MaxOps
    /\ requests' = requests + 1
    /\ IF form_is_valid(title, status)
       THEN LET task == [status       |-> status[1],
                         order        |-> create_order(tasks, status[1]),
                         completed_at |-> None,
                         priority     |-> priority,
                         due_at       |-> None,
                         created_at   |-> now,
                         updated_at   |-> now]
            IN  /\ Len(tasks) < MaxTasks
                /\ tasks' = Append(tasks, task)
                /\ response' = Some([view            |-> "create_task",
                                     status_code     |-> 201,
                                     error           |-> FALSE,
                                     dropped_task_pk |-> None])
                /\ columns' = _fetch_board_context(tasks', now)
       ELSE /\ tasks' = tasks
            /\ response' = Some([view            |-> "create_task",
                                 status_code     |-> 400,
                                 error           |-> TRUE,
                                 dropped_task_pk |-> None])
            /\ columns' = _fetch_board_context(tasks, now)
    /\ UNCHANGED <<now, inflight, socialVars>>

\* edit_task: POST of the task form to task/<int:task_id>/edit/.  The form
\* has no order and no completed_at field.
EditTask(pk, title, status, priority) ==
    /\ requests < MaxOps
    /\ requests' = requests + 1
    /\ IF pk \notin 1 .. Len(tasks)
       THEN /\ tasks' = tasks
            /\ response' = Some([view            |-> "edit_task",
                                 status_code     |-> 404,
                                 error           |-> TRUE,
                                 dropped_task_pk |-> None])
       ELSE IF form_is_valid(title, status)
       THEN /\ tasks' = [tasks EXCEPT ![pk].status = status[1],
                                      ![pk].priority = priority,
                                      ![pk].updated_at = now]
            /\ response' = Some([view            |-> "edit_task",
                                 status_code     |-> 302,
                                 error           |-> FALSE,
                                 dropped_task_pk |-> None])
       ELSE /\ tasks' = tasks
            /\ response' = Some([view            |-> "edit_task",
                                 status_code     |-> 400,
                                 error           |-> TRUE,
                                 dropped_task_pk |-> None])
    /\ columns' = <<>>
    /\ UNCHANGED <<now, inflight, socialVars>>

\* Task.mark_done
MarkDone(pk) ==
    /\ requests < MaxOps
    /\ requests' = requests + 1
    /\ pk \in 1 .. Len(tasks)
    /\ tasks' = [tasks EXCEPT ![pk].status = "done",
                              ![pk].completed_at = Some(now),
                              ![pk].updated_at = now]
    /\ UNCHANGED <<now, response, columns, inflight, socialVars>>

\* One move_task request, out of the MaxOps operations.
MoveOp(task_id, status) ==
    /\ requests < MaxOps
    /\ requests' = requests + 1
    /\ move_task(task_id, status)

NextOps ==
    \/ Tick
    \/ \E title \in TitleParams, status \in StatusParams,
          priority \in PriorityParams : CreateTask(title, status, priority)
    \/ \E pk \in 1 .. MaxTasks + 1, title \in TitleParams,
          status \in StatusParams, priority \in PriorityParams :
          EditTask(pk, title, status, priority)
    \/ \E pk \in 1 .. MaxTasks : MarkDone(pk)
    \/ \E task_id \in TaskIdParams, status \in StatusParams :
          MoveOp(task_id, status)

SpecOps == InitOps /\ [][NextOps]_vars

----------------------------------------------------------------------------
(* Properties of the operations of the tasks app, checked under SpecOps *)

\* The task a successful create_task or move_task response is about.
\* Rows are never deleted, so the created task is the newest row.
Answered ==
    IF response[1].view = "create_task" THEN Len(tasks)
    ELSE response[1].dropped_task_pk[1]

\* After a successful create_task or move_task response: the task it is
\* about has the greatest order of its status and, if shown, is last.
AppendedLast ==
    (/\ response # None
     /\ response[1].view \in {"create_task", "move_task"}
     /\ response[1].status_code \in {200, 201})
       => LET pk == Answered
          IN  /\ pk \in 1 .. Len(tasks)
              /\ \A k \in 1 .. Len(tasks) :
                    (k # pk /\ tasks[k].status = tasks[pk].status)
                       => tasks[k].order < tasks[pk].order
              /\ \A i \in 1 .. Len(columns) :
                    \A j \in 1 .. Len(columns[i].tasks) :
                       (columns[i].tasks[j].pk = pk)
                          => j = Len(columns[i].tasks)

\* C18: after a create_task or an accepted move_task that ran to
\* completion, the created or moved task's order is strictly greater than
\* the order of every other stored task with the same status, so when the
\* board of the response shows it, it is the last task of its column.
\* Stated step by step: every step other than the passing of time and
\* Task.mark_done (which answer no request) ends in such a state.
C18_AppendedLast ==
    [][\/ AppendedLast'
       \/ Tick
       \/ \E pk \in 1 .. MaxTasks : MarkDone(pk)]_vars

\* An urgent task was created in a status that held a task of normal
\* priority, and is shown last of a column of two.
C18_Witness ==
    /\ response # None
    /\ response[1].view = "create_task"
    /\ response[1].status_code = 201
    /\ Len(tasks) = 2
    /\ tasks[2].order = 2
    /\ \E i \in 1 .. Len(columns) :
          /\ Len(columns[i].tasks) = 2
          /\ columns[i].tasks[2].pk = 2
          /\ columns[i].tasks[2].priority = 4
          /\ columns[i].tasks[1].priority = PriorityNormal

\* C19: in every state reached through create_task, edit_task, move_task
\* and Task.mark_done, every task whose status is done has a non-null
\* completed_at.
C19_DoneHasCompletedAt ==
    \A pk \in 1 .. Len(tasks) :
       (tasks[pk].status = "done") => tasks[pk].completed_at # None

----------------------------------------------------------------------------
(* The board answered by a move to done, checked under Spec *)

\* C20: whenever move_task accepts a move of a task to done, the board of
\* that response contains the task in the done column, also for a task
\* that was completed earlier, moved out of done, and moved back more than
\* 14 days after its completed_at.
C20_MovedToDoneIsShown ==
    [][\/ response' = None
       \/ response'[1].view # "move_task"
       \/ response'[1].status_code # 200
       \/ tasks'[response'[1].dropped_task_pk[1]].status # "done"
       \/ \E j \in 1 .. Len(columns'[4].tasks) :
             columns'[4].tasks[j].pk = response'[1].dropped_task_pk[1]
       \/ \A task_id \in TaskIdParams, status \in StatusParams :
             ~MoveTask(task_id, status)]_vars

----------------------------------------------------------------------------
(* social/views.py : create_touchpoint handled by two workers at once.    *)
(* Each ORM call of the view is one step: the form's load of the contact, *)
(* the insert of the touchpoint, the conditional update of the contact,   *)
(* and the queries of the response.                                       *)

\* The two requests.
TouchRequests == {1, 2}

\* A worker that has not received its request.
IdleTouchWorker ==
    [pc |-> "idle", date |-> 0, loaded |-> None, status_code |-> 0]

InitTouchRace ==
    /\ today = Today
    /\ \E lc \in StartLastContacted :
          contact = [check_in_frequency_days |-> DefaultCadence,
                     last_contacted_at       |-> lc,
                     annotated               |-> FALSE,
                     tp_max                  |-> None,
                     tp_recent               |-> 0,
                     touchpoints             |-> <<>>]
    /\ strength = None
    /\ tasks = <<>>
    /\ now = 0
    /\ response = None
    /\ columns = <<>>
    /\ requests = 0
    /\ inflight = [r \in TouchRequests |-> IdleTouchWorker]

\* form.is_valid(): the contact field loads the Contact row that
\* touchpoint.contact will be.
TouchValidate(r, date) ==
    /\ inflight[r].pc = "idle"
    /\ IF date = None
       THEN /\ inflight' = [inflight EXCEPT ![r].pc = "done",
                                            ![r].status_code = 400]
            /\ strength' = Some(_compute_strength(Annotate(contact, today),
                                                  today))
            /\ response' = Some([view        |-> "create_touchpoint",
                                 status_code |-> 400,
                                 error       |-> TRUE])
       ELSE /\ inflight' = [inflight EXCEPT
                              ![r].pc = "insert",
                              ![r].date = date[1],
                              ![r].loaded = contact.last_contacted_at]
            /\ UNCHANGED <<strength, response>>
    /\ UNCHANGED <<contact, today, tasks, now, columns, requests>>

\* touchpoint = form.save()
TouchInsert(r) ==
    /\ inflight[r].pc = "insert"
    /\ contact' = [contact EXCEPT !.touchpoints = Append(@, inflight[r].date)]
    /\ inflight' = [inflight EXCEPT ![r].pc = "update"]
    /\ UNCHANGED <<today, strength, tasks, now, response, columns, requests>>

\* _update_last_contacted(touchpoint): the test reads the instance loaded
\* by the form; contact.save(update_fields=["last_contacted_at", ...])
\* writes the column only when the test passes.
TouchUpdate(r) ==
    /\ inflight[r].pc = "update"
    /\ LET instance == [contact EXCEPT
                          !.last_contacted_at = inflight[r].loaded]
           updated  == _update_last_contacted(instance, inflight[r].date)
       IN  contact' = IF updated # instance
                         THEN [contact EXCEPT !.last_contacted_at =
                                                 updated.last_contacted_at]
                         ELSE contact
    /\ inflight' = [inflight EXCEPT ![r].pc = "render"]
    /\ UNCHANGED <<today, strength, tasks, now, response, columns, requests>>

\* contacts, today = _fetch_contacts_with_strength(); render(..., status=201)
TouchRender(r) ==
    /\ inflight[r].pc = "render"
    /\ inflight' = [inflight EXCEPT ![r].pc = "done",
                                    ![r].status_code = 201]
    /\ strength' = Some(_compute_strength(Annotate(contact, today), today))
    /\ response' = Some([view        |-> "create_touchpoint",
                         status_code |-> 201,
                         error       |-> FALSE])
    /\ UNCHANGED <<contact, today, tasks, now, columns, requests>>

NextTouchRace ==
    \E r \in TouchRequests :
       \/ \E date \in TouchDateParams : TouchValidate(r, date)
       \/ TouchInsert(r)
       \/ TouchUpdate(r)
       \/ TouchRender(r)

SpecTouchRace == InitTouchRace /\ [][NextTouchRace]_vars

----------------------------------------------------------------------------
(* Properties of concurrent create_touchpoint, checked under SpecTouchRace *)

\* Both requests were answered 201.
BothRecorded ==
    /\ DOMAIN inflight = TouchRequests
    /\ \A r \in TouchRequests :
          inflight[r].pc = "done" /\ inflight[r].status_code = 201

\* C21: when two create_touchpoint requests for the same contact
\* interleave, after both complete the contact's last_contacted_at equals
\* the later of the stored touchpoint dates; no interleaving leaves it
\* below the maximum touchpoint date.
C21_InterleavedKeepsMax ==
    BothRecorded =>
       /\ contact.last_contacted_at # None
       /\ contact.last_contacted_at = MaxTouchpointDate(contact.touchpoints)

----------------------------------------------------------------------------
(* Relations between the fields of a result, checked under SpecStrength *)

\* C22: for every result of _compute_strength, overdue_by is non-null
\* exactly when days_since > target, which is exactly when the label is
\* "Needs touch" or "At risk"; a non-null overdue_by equals
\* days_since - target and is positive; a result labelled "Strong",
\* "Steady" or "Cold start" has overdue_by null.
C22_OverdueIffLate ==
    Computed =>
       LET s      == strength[1]
           target == target_days(contact)
           late   == s.days_since # None /\ s.days_since[1] > target
       IN  /\ (s.overdue_by # None) <=> late
           /\ late <=> (s.label \in {"Needs touch", "At risk"})
           /\ (s.overdue_by # None)
                 => /\ s.overdue_by[1] = s.days_since[1] - target
                    /\ s.overdue_by[1] > 0
           /\ (s.label \in {"Strong", "Steady", "Cold start"})
                 => s.overdue_by = None
           /\ s.label \in {"Strong", "Steady", "Cold start",
                           "Needs touch", "At risk"}

\* A contact one day past its target: "Needs touch" with overdue_by 1.
C22_Witness ==
    /\ Dated
    /\ strength[1].days_since[1] = target_days(contact) + 1
    /\ strength[1].label = "Needs touch"
    /\ strength[1].overdue_by = Some(1)

\* Largest number of days by which a later evaluation day is shifted.
MaxShift == 5

\* Position of a label on the ladder from "Strong" to "At risk".
LabelRank(label) ==
    CASE label = "Strong" -> 1
      [] label = "Steady" -> 2
      [] label = "Needs touch" -> 3
      [] label = "At risk" -> 4

\* The contact with another recent-touchpoint count.
WithRecent(c, n) == [c EXCEPT !.tp_recent = n]

\* C23: for a fixed target and recent-touchpoint count the score never
\* increases when days_since increases and the label never moves back
\* toward "Strong"; for a fixed days_since and target the score never
\* decreases when the count increases and is the same for every
\* count >= 5.
C23_Monotone ==
    Computed =>
       /\ Dated =>
             \A k \in 1 .. MaxShift :
                LET later == _compute_strength(contact, today + k)
                IN  /\ later.days_since = Some(strength[1].days_since[1] + k)
                    /\ later.score <= strength[1].score
                    /\ LabelRank(later.label) >= LabelRank(strength[1].label)
       /\ \A n \in 0 .. (MaxRecent + 2) :
             LET other == _compute_strength(WithRecent(contact, n), today)
             IN  /\ other.days_since = strength[1].days_since
                 /\ (n >= touchpoints_recent(contact) /\ contact.annotated)
                       => other.score >= strength[1].score
                 /\ (/\ n >= 5
                     /\ touchpoints_recent(contact) >= 5
                     /\ contact.annotated)
                       => other.score = strength[1].score

\* A "Steady" contact with five recent touchpoints whose score drops and
\* whose label becomes "Needs touch" on the next day, and whose score with
\* four touchpoints would be lower.
C23_Witness ==
    /\ Dated
    /\ contact.annotated
    /\ contact.tp_recent = 5
    /\ strength[1].label = "Steady"
    /\ _compute_strength(contact, today + 1).label = "Needs touch"
    /\ _compute_strength(contact, today + 1).score < strength[1].score
    /\ _compute_strength(WithRecent(contact, 4), today).score
          < strength[1].score

====
